---- MODULE Spec2Model ----
(***************************************************************************)
(* Model of the order-book aggregator of agg_cex_orders.                   *)
(*                                                                         *)
(* State: the two DashMaps of OrderBook (exchange -> RwLock<BTreeMap>),    *)
(* the build profile (which decides what an overflowing `+=` does), the    *)
(* iteration order of each DashMap (decided by its randomly seeded         *)
(* hasher), and history variables recording which orders were applied.     *)
(*                                                                         *)
(* Around the book: the two listener tasks (where each is in listen_pair,  *)
(* the events of the frame it is handling), the mpsc channel between the   *)
(* listeners and main, and main's select! loop up to its return.           *)
(*                                                                         *)
(* Specifications: Spec and SpecDeep apply orders to the book; SpecSys is  *)
(* the whole process from the spawn of the tasks; SpecTicks is the Binance *)
(* listener streaming frames to main; SpecFull starts with a channel that  *)
(* has one free slot.                                                      *)
(***************************************************************************)
EXTENDS Integers, Sequences, FiniteSets, TLC

\* ------------------------------------------------------------------ bounds
MaxPrice == 2        \* prices 1..MaxPrice in the specification Spec
MaxDepth == 5        \* levels a prefilled ladder of SpecDeep holds
MaxQty == 3          \* largest value of a quantity word (u64::MAX in the source)
MaxApplied == 2      \* orders applied in one behaviour of Spec
MaxDeepApplied == 1  \* orders applied after the prefill in SpecDeep
MaxLevels == 2       \* levels in one frame (bids and asks together)
MaxFrames == 1       \* text frames read in one behaviour of SpecSys
MaxTicks == 2        \* Binance frames read in one behaviour of SpecTicks
MaxFullApplied == 2  \* events received in one behaviour of SpecFull
MaxTexts == 2        \* text frames read in one behaviour of SpecFrames
MaxLockApplied == 2  \* orders applied in one behaviour of SpecLocks
MaxQueries == 1      \* queries called in one behaviour of SpecLocks
NReaders == 2        \* tasks that query the book at the same time in SpecLive
MaxLiveApplied == 2  \* orders applied in one behaviour of SpecLive

\* ------------------------------------------------------- program constants
TopN == 10

\* ------------------------------------------------------------------- types
Exchange == {"Binance", "Bitstamp"}
Side == {"Buy", "Sell"}
QtyMod == MaxQty + 1
Quantity == 0 .. (QtyMod - 1)
Prices == 1 .. MaxPrice
DeepPrices == 1 .. (MaxDepth + 1)

ExchangePrice(P) == [exchange : Exchange, side : Side, price : P, quantity : Quantity]
Orders == ExchangePrice(Prices)
DeepOrders == ExchangePrice(DeepPrices)

NoOrder == [exchange |-> "none", side |-> "none", price |-> 0, quantity |-> 0]

\* A fresh ladder: Arc::new(RwLock::new(BTreeMap::new()))
NewLadder == [poisoned |-> FALSE, map |-> <<>>]

\* The two iteration orders a two-key DashMap can have
IterOrders == {<<"Binance", "Bitstamp">>, <<"Bitstamp", "Binance">>}

VARIABLES
    exchange_bids_price_level,  \* DashMap<Exchange, Arc<RwLock<BTreeMap<u64,u64>>>>
    exchange_asks_price_level,  \* DashMap<Exchange, Arc<RwLock<BTreeMap<u64,u64>>>>
    bids_iter_order,            \* order in which exchange_bids_price_level.iter() yields
    asks_iter_order,            \* order in which exchange_asks_price_level.iter() yields
    build,                      \* "debug": overflow panics; "release": overflow wraps
    panicked,                   \* the consumer (main) has panicked: the process is gone
    applied,                    \* history: number of orders applied
    last_order,                 \* history: the order applied last
    recent,                     \* history: coordinate -> quantity of the latest order there
    adapter_state,              \* per exchange: where the listener task is
    outbox,                     \* per exchange: events of the frame in handle_message still to send
    bus,                        \* the mpsc channel: events sent and not yet received
    rx_open,                    \* the Receiver has not been dropped
    aborted,                    \* JoinHandle::abort() has been called on the listener tasks
    main_pc,                    \* where main is: "loop" or, after its return, "done"
    exit_reason,                \* the select! branch that ended main's loop
    frames_read,                \* per exchange: text frames read from the socket
    sent,                       \* history: per exchange, events accepted by the bus
    applied_seq,                \* history: per exchange, number of the event applied last
    send_failed,                \* history: per exchange, a send has returned Err
    unapplied_at_exit,          \* history: events in the bus when main's loop ended
    last_tick,                  \* history: the events of the last Binance frame
    rejected,                   \* history: per exchange, handle_message has dropped a whole frame
    same_shard,                 \* the two Exchange keys hash to the same DashMap shard
    writer_first,               \* a shard's lock admits no new reader while the writer waits for it
    shard_lock,                 \* per (side, shard): the shard's RwLock
    ladder_lock,                \* per (side, exchange): the ladder's RwLock
    w_pc,                       \* where the consumer is inside update_price_level
    w_order,                    \* the order the consumer is applying
    r_pc,                       \* per querying task: where it is inside top_bids / top_asks
    r_side,                     \* per querying task: the side of its running query
    r_todo,                     \* per querying task: the exchanges its iterator has yet to yield
    r_prices,                   \* per querying task: the prices of the current ladder yet to visit
    r_levels,                   \* per querying task: the levels pushed from the current ladder
    r_done,                     \* per querying task: per ladder finished by the running query, its levels
    r_result,                   \* per querying task: the vector its last query returned
    r_from,                     \* history: per querying task, orders applied when its last query was called
    r_to,                       \* history: per querying task, orders applied when its last query returned
    queries,                    \* history: number of queries started
    hist,                       \* history: per (side, exchange), every map the ladder has held
    p_results,                  \* what the snapshot under construction has got from its queries: the
                                \* vectors, each with the orders applied at the query's call and return
    snapshot                    \* the snapshot put out last

bookvars == <<exchange_bids_price_level, exchange_asks_price_level, bids_iter_order,
              asks_iter_order, build, panicked, applied, last_order, recent>>

lockvars == <<same_shard, writer_first, shard_lock, ladder_lock, w_pc, w_order, r_pc, r_side, r_todo,
              r_prices, r_levels, r_done, r_result, r_from, r_to, queries, hist,
              p_results, snapshot>>

sysvars == <<adapter_state, outbox, bus, rx_open, aborted, main_pc,
             exit_reason, frames_read, sent, applied_seq, send_failed,
             unapplied_at_exit, last_tick, rejected, lockvars>>

vars == <<bookvars, sysvars>>

\* ---------------------------------------------------------------- helpers
Coord(order) == <<order.exchange, order.side, order.price>>

\* The value a ladder holds at a price; -1 when the key is absent
Stored(dm, exchange, price) ==
    IF exchange \in DOMAIN dm /\ price \in DOMAIN dm[exchange].map
        THEN dm[exchange].map[price]
        ELSE -1

\* ------------------------------------------------- update_price_level
\* `*entry += quantity` on u64: the mathematical sum, and whether it fits the word
AddAssign(old, quantity) == old + quantity

Overflows(sum) == sum >= QtyMod

\* Body of one arm of update_price_level_for_exchange on one DashMap.
\* Returns the DashMap afterwards and whether the arm panicked.
\* (the mutant forgets the entries of the other exchanges)
UpdateLadderWrong(dm, bld, exchange, price, quantity) ==
    LET ladder == IF exchange \in DOMAIN dm THEN dm[exchange] ELSE NewLadder   \* entry().or_insert_with
        old    == IF price \in DOMAIN ladder.map THEN ladder.map[price] ELSE 0 \* entry(price).or_insert(0)
        sum    == AddAssign(old, quantity)
    IN  IF Overflows(sum) /\ bld = "debug"
            THEN \* overflow check panics while the write guard is held: the
                 \* entry keeps its value and dropping the guard poisons the lock
                 [dm |-> (exchange :> [poisoned |-> TRUE,
                                       map |-> (price :> old) @@ ladder.map]),
                  panic |-> TRUE]
            ELSE [dm |-> (exchange :> [poisoned |-> ladder.poisoned,
                                       map |-> (price :> (sum % QtyMod)) @@ ladder.map]),
                  panic |-> FALSE]

UpdateLadder(dm, bld, exchange, price, quantity) ==
    LET ladder == IF exchange \in DOMAIN dm THEN dm[exchange] ELSE NewLadder   \* entry().or_insert_with
        old    == IF price \in DOMAIN ladder.map THEN ladder.map[price] ELSE 0 \* entry(price).or_insert(0)
        sum    == AddAssign(old, quantity)
    IN  IF Overflows(sum) /\ bld = "debug"
            THEN \* overflow check panics while the write guard is held: the
                 \* entry keeps its value and dropping the guard poisons the lock
                 [dm |-> (exchange :> [poisoned |-> TRUE,
                                       map |-> (price :> old) @@ ladder.map]) @@ dm,
                  panic |-> TRUE]
            ELSE [dm |-> (exchange :> [poisoned |-> ladder.poisoned,
                                       map |-> (price :> (sum % QtyMod)) @@ ladder.map]) @@ dm,
                  panic |-> FALSE]

\* The book (both DashMaps) after update_price_level(order)
UpdateBookWrong(book, bld, order) ==
    IF order.side = "Sell"
        THEN LET r == UpdateLadder(book.bids, bld, order.exchange, order.price, order.quantity)
             IN  [bids |-> r.dm, asks |-> book.asks, panic |-> r.panic]
        ELSE LET r == UpdateLadder(book.asks, bld, order.exchange, order.price, order.quantity)
             IN  [bids |-> book.bids, asks |-> r.dm, panic |-> r.panic]

UpdateBook(book, bld, order) ==
    IF order.side = "Buy"
        THEN LET r == UpdateLadder(book.bids, bld, order.exchange, order.price, order.quantity)
             IN  [bids |-> r.dm, asks |-> book.asks, panic |-> r.panic]
        ELSE LET r == UpdateLadder(book.asks, bld, order.exchange, order.price, order.quantity)
             IN  [bids |-> book.bids, asks |-> r.dm, panic |-> r.panic]

Book == [bids |-> exchange_bids_price_level, asks |-> exchange_asks_price_level, panic |-> panicked]

ApplyOrder(order) ==
    /\ ~panicked
    /\ LET r == UpdateBook(Book, build, order)
       IN  /\ exchange_bids_price_level' = r.bids
           /\ exchange_asks_price_level' = r.asks
           /\ panicked' = r.panic

\* the same, with the histories the claims about single orders read
update_price_level(order) ==
    /\ ApplyOrder(order)
    /\ applied' = applied + 1
    /\ last_order' = order
    /\ recent' = (Coord(order) :> order.quantity) @@ recent
    /\ UNCHANGED <<bids_iter_order, asks_iter_order, build>>

\* ------------------------------------------------------------ queries
RECURSIVE KeysAscending(_)
KeysAscending(S) ==
    IF S = {} THEN <<>>
    ELSE LET m == CHOOSE k \in S : \A j \in S : k <= j
         IN  <<m>> \o KeysAscending(S \ {m})

\* for (&price, &qty) in guard.iter() { if qty == 0 { continue; } levels.push(..) }
RECURSIVE PushLevels(_, _, _)
PushLevels(exchange, map, keys) ==
    IF keys = <<>> THEN <<>>
    ELSE LET price == Head(keys)
             qty == map[price]
         IN  (IF qty = 0 THEN <<>> ELSE << <<exchange, price, qty>> >>)
             \o PushLevels(exchange, map, Tail(keys))

\* a collection that merges the exchanges' quantities at one price into one level
RECURSIVE MergeLevels(_, _, _)
MergeLevels(dm, order, keys) ==
    IF keys = <<>> THEN <<>>
    ELSE LET p == Head(keys)
             q(x) == IF x \in DOMAIN dm /\ ~dm[x].poisoned /\ p \in DOMAIN dm[x].map
                         THEN dm[x].map[p] ELSE 0
             total == q(order[1]) + q(order[2])
             owner == IF q(order[1]) > 0 THEN order[1] ELSE order[2]
         IN  (IF total = 0 THEN <<>> ELSE << <<owner, p, total>> >>)
             \o MergeLevels(dm, order, Tail(keys))

CollectLevelsWrong(dm, order) ==
    MergeLevels(dm, order,
                KeysAscending(UNION {DOMAIN dm[x].map : x \in {y \in DOMAIN dm : ~dm[y].poisoned}}))

\* for entry in dashmap.iter() { if let Ok(guard) = map_arc.read() { ... } }
RECURSIVE CollectLevels(_, _)
CollectLevels(dm, order) ==
    IF order = <<>> THEN <<>>
    ELSE LET exchange == Head(order)
         IN  (IF exchange \in DOMAIN dm /\ ~dm[exchange].poisoned
                 THEN PushLevels(exchange, dm[exchange].map,
                                 KeysAscending(DOMAIN dm[exchange].map))
                 ELSE <<>>)
             \o CollectLevels(dm, Tail(order))

\* comparators of the two sort_by calls: TRUE when a sorts strictly before b
BidsBeforeWrong(a, b) == a[2] < b[2]
BidsBefore(a, b) == a[2] > b[2]
AsksBeforeWrong(a, b) == a[2] > b[2]
AsksBefore(a, b) == a[2] < b[2]

\* the comparator of the sort_by call of one side's query
Before(side, a, b) == IF side = "Buy" THEN BidsBefore(a, b) ELSE AsksBefore(a, b)

\* slice::sort_by is a stable sort: equal elements keep their order
RECURSIVE InsertStable(_, _, _)
InsertStable(sorted, x, side) ==
    IF sorted = <<>> THEN <<x>>
    ELSE IF Before(side, x, Head(sorted)) THEN <<x>> \o sorted
    ELSE <<Head(sorted)>> \o InsertStable(Tail(sorted), x, side)

RECURSIVE SortBy(_, _, _)
SortBy(levels, acc, side) ==
    IF levels = <<>> THEN acc
    ELSE SortBy(Tail(levels), InsertStable(acc, Head(levels), side), side)

\* if levels.len() > 10 { levels.truncate(10); }
TruncateWrong(levels) == levels
Truncate(levels) == IF Len(levels) > TopN THEN SubSeq(levels, 1, TopN) ELSE levels

TopBidsOf(dm, order) == Truncate(SortBy(CollectLevels(dm, order), <<>>, "Buy"))
TopAsksOf(dm, order) == Truncate(SortBy(CollectLevels(dm, order), <<>>, "Sell"))

top_bids_all_exchanges == TopBidsOf(exchange_bids_price_level, bids_iter_order)
top_asks_all_exchanges == TopAsksOf(exchange_asks_price_level, asks_iter_order)

\* Option<u64>::None of spread_all_exchanges
NoSpread == -1

\* u64::saturating_sub; the mutant is the plain (wrapping) subtraction
SaturatingSubWrong(a, b) == a - b
SaturatingSub(a, b) == IF a >= b THEN a - b ELSE 0

\* top_bids.first().copied()?; top_asks.first().copied()?; Some(ask.saturating_sub(bid))
SpreadOf(top_bids, top_asks) ==
    IF top_bids = <<>> THEN NoSpread
    ELSE IF top_asks = <<>> THEN NoSpread
    ELSE SaturatingSub(top_asks[1][2], top_bids[1][2])

spread_all_exchanges == SpreadOf(top_bids_all_exchanges, top_asks_all_exchanges)

\* ------------------------------------------------------ specifications
\* the tasks that query the book
Readers == 1 .. NReaders

\* `c as f64 / 100.0`: the number of hundredths c, as a float
CentsToFloat(c) == [null |-> FALSE, hundredths |-> c]

\* the JSON null of an Option that is None
Null == [null |-> TRUE, hundredths |-> 0]

\* no snapshot has been put out
NoSnapshot == [published |-> FALSE, bids |-> <<>>, asks |-> <<>>,
               spread_cents |-> -1, spread |-> Null]

\* An RwLock: whether a write guard is out, and how many read guards
FreeLock == [writer |-> FALSE, readers |-> 0]

\* No task is inside the book: every lock is free
LocksInitWith(shared, maps, first) ==
    /\ same_shard = shared
    /\ writer_first = first
    /\ shard_lock = [k \in Side \X Exchange |-> FreeLock]
    /\ ladder_lock = [k \in Side \X Exchange |-> FreeLock]
    /\ w_pc = "idle"
    /\ w_order = NoOrder
    /\ r_pc = [rd \in Readers |-> "idle"]
    /\ r_side = [rd \in Readers |-> "Buy"]
    /\ r_todo = [rd \in Readers |-> <<>>]
    /\ r_prices = [rd \in Readers |-> <<>>]
    /\ r_levels = [rd \in Readers |-> <<>>]
    /\ r_done = [rd \in Readers |-> <<>>]
    /\ r_result = [rd \in Readers |-> <<>>]
    /\ r_from = [rd \in Readers |-> 0]
    /\ r_to = [rd \in Readers |-> 0]
    /\ queries = 0
    /\ hist = maps
    /\ p_results = <<>>
    /\ snapshot = NoSnapshot

LocksInit(shared, maps) == LocksInitWith(shared, maps, FALSE)

\* The tasks and the channel as main leaves them at main.rs:38-69
ChannelInit(state) ==
    /\ adapter_state = [x \in Exchange |-> state]
    /\ outbox = [x \in Exchange |-> <<>>]
    /\ bus = <<>>
    /\ rx_open = TRUE
    /\ aborted = FALSE
    /\ main_pc = "loop"
    /\ exit_reason = "none"
    /\ frames_read = [x \in Exchange |-> 0]
    /\ sent = [x \in Exchange |-> 0]
    /\ applied_seq = [x \in Exchange |-> 0]
    /\ send_failed = [x \in Exchange |-> FALSE]
    /\ unapplied_at_exit = 0
    /\ last_tick = <<>>
    /\ rejected = [x \in Exchange |-> FALSE]

\* the same, with no task inside the book
SysInit(state) == ChannelInit(state) /\ LocksInit(FALSE, <<>>)

Init ==
    /\ SysInit("Streaming")
    /\ exchange_bids_price_level = <<>>
    /\ exchange_asks_price_level = <<>>
    /\ bids_iter_order \in IterOrders
    /\ asks_iter_order \in IterOrders
    /\ build \in {"debug", "release"}
    /\ panicked = FALSE
    /\ applied = 0
    /\ last_order = NoOrder
    /\ recent = <<>>

Consume ==
    \E order \in Orders :
        applied < MaxApplied /\ update_price_level(order) /\ UNCHANGED sysvars

Next == Consume

Spec == Init /\ [][Next]_vars

\* ---- SpecDeep: the book already holds the levels of earlier frames
\* The quantity each exchange's earlier orders carried
PrefillQuantity(exchange) == IF exchange = "Binance" THEN 1 ELSE 2

\* The DashMap after update_price_level has been applied once, with the
\* exchange's quantity, for every price 1..MaxDepth of every exchange in xs
Prefilled(xs) ==
    [exchange \in xs |->
        [poisoned |-> FALSE, map |-> [p \in 1 .. MaxDepth |-> PrefillQuantity(exchange)]]]

\* One side holds MaxDepth levels of each exchange, the other side holds
\* MaxDepth levels of Binance only
InitDeep ==
    \E deep \in Side :
        /\ SysInit("Streaming")
        /\ bids_iter_order \in IterOrders
        /\ asks_iter_order \in IterOrders
        /\ build \in {"debug", "release"}
        /\ exchange_bids_price_level = Prefilled(IF deep = "Buy" THEN Exchange ELSE {"Binance"})
        /\ exchange_asks_price_level = Prefilled(IF deep = "Sell" THEN Exchange ELSE {"Binance"})
        /\ panicked = FALSE
        /\ applied = 0
        /\ last_order = NoOrder
        /\ recent = [c \in {c \in Exchange \X Side \X (1 .. MaxDepth) :
                                c[2] = deep \/ c[1] = "Binance"}
                        |-> PrefillQuantity(c[1])]

ConsumeDeep ==
    \E order \in DeepOrders :
        applied < MaxDeepApplied /\ update_price_level(order) /\ UNCHANGED sysvars

NextDeep == ConsumeDeep

SpecDeep == InitDeep /\ [][NextDeep]_vars

\* ------------------------------------------------- decimal strings, frames
\* A decimal string of a frame: its integer part and the digits after the
\* '.', <<>> when the string has no '.'  ("0" is DecStr(0, <<>>)); the
\* integer part is None when `int_part.parse()` fails ("abc")
DecStr(int, frac) == [int |-> int, frac |-> frac]

\* Option::None of the two parsers
None == -1

RECURSIVE DigitsValue(_)
DigitsValue(ds) ==
    IF ds = <<>> THEN 0
    ELSE DigitsValue(SubSeq(ds, 1, Len(ds) - 1)) * 10 + ds[Len(ds)]

RECURSIVE Pow10(_)
Pow10(n) == IF n = 0 THEN 1 ELSE 10 * Pow10(n - 1)

\* frac.truncate(width) or push('0') up to width
FitFrac(frac, width) ==
    IF Len(frac) > width THEN SubSeq(frac, 1, width)
    ELSE frac \o [i \in 1 .. (width - Len(frac)) |-> 0]

\* util::parse_price_cents
parse_price_cents(s) ==
    IF s.int = None THEN None ELSE s.int * 100 + DigitsValue(FitFrac(s.frac, 2))

\* util::parse_quantity_smallest_unit; checked_mul / checked_add give None
\* when the value does not fit the quantity word
parse_quantity_smallest_unit(s, decimals) ==
    LET value == s.int * Pow10(decimals) + DigitsValue(FitFrac(s.frac, decimals))
    IN  IF s.int = None \/ value >= QtyMod THEN None ELSE value

\* `size_str == "0"`
IsZeroStr(s) == s = DecStr(0, <<>>)

\* the price strings "0.01", "0.02", ... and the size strings "0" and
\* "0.0000000q" for the largest quantity q
PriceStrs == {DecStr(0, <<0, p>>) : p \in 1 .. MaxPrice}
SizeStrs == {DecStr(0, <<>>), DecStr(0, <<0, 0, 0, 0, 0, 0, 0, MaxQty>>)}
Levels == [price : PriceStrs, size : SizeStrs]

SeqsUpTo(S, n) == UNION {[1 .. k -> S] : k \in 0 .. n}

\* a depth frame: the "bids" array and the "asks" array
Frames ==
    {f \in [bids : SeqsUpTo(Levels, MaxLevels), asks : SeqsUpTo(Levels, MaxLevels)] :
        Len(f.bids) + Len(f.asks) <= MaxLevels}

\* `as_array()`, `len() >= 2` and both `as_str()`: the entry of a level array
\* is an array that starts with two strings
IsPair(level) == DOMAIN level = {"price", "size"}

\* the per-level loop of handle_message over one array: the events it sends,
\* in the order it sends them.  Bitstamp skips the size "0".
RECURSIVE LevelEvents(_, _, _)
LevelEvents(exchange, side, levels) ==
    IF levels = <<>> THEN <<>>
    ELSE LET level == Head(levels)
             price == parse_price_cents(level.price)
             quantity == parse_quantity_smallest_unit(level.size, 8)
             rest == LevelEvents(exchange, side, Tail(levels))
         IN  IF ~IsPair(level) THEN rest
             ELSE IF exchange = "Bitstamp" /\ IsZeroStr(level.size) THEN rest
             ELSE IF price = None \/ quantity = None THEN rest
             ELSE <<[exchange |-> exchange, side |-> side,
                     price |-> price, quantity |-> quantity]>> \o rest

\* handle_message: the bids loop, then the asks loop
ParseFrame(exchange, frame) ==
    LevelEvents(exchange, "Buy", frame.bids) \o LevelEvents(exchange, "Sell", frame.asks)

\* ------------------------------------------------------------ the channel
\* mpsc::channel(1000)
Capacity == 1000

\* Sender::send completes at once only while the channel has a free slot
HasCapacityWrong(b) == Len(b) <= Capacity
HasCapacity(b) == Len(b) < Capacity

\* the channel is a queue: send appends at the back, recv takes the front
EnqueueWrong(b, event) == <<event>> \o b
Enqueue(b, event) == Append(b, event)

\* recv takes the front event out of the channel
DequeueWrong(b) == b
Dequeue(b) == Tail(b)

\* ------------------------------------------------------------- the adapters
Rank(state) ==
    CASE state = "Idle" -> 0
      [] state = "Connecting" -> 1
      [] state = "Subscribing" -> 2
      [] state = "Streaming" -> 3
      [] state = "Terminated" -> 4

\* the listener returns: the task ends and drops its Sender
TerminateWrong(x) ==
    /\ adapter_state' = [adapter_state EXCEPT ![x] = "Connecting"]
    /\ outbox' = [outbox EXCEPT ![x] = <<>>]
Terminate(x) ==
    /\ adapter_state' = [adapter_state EXCEPT ![x] = "Terminated"]
    /\ outbox' = [outbox EXCEPT ![x] = <<>>]

AdapterOnly ==
    UNCHANGED <<bookvars, bus, rx_open, aborted, main_pc, exit_reason, frames_read,
                sent, applied_seq, send_failed, unapplied_at_exit, last_tick, rejected, lockvars>>

\* sleep(200 ms) is over: the task calls the listener, which connects
Start(x) ==
    /\ adapter_state[x] = "Idle"
    /\ adapter_state' = [adapter_state EXCEPT ![x] = "Connecting"]
    /\ UNCHANGED outbox
    /\ AdapterOnly

\* connect_async returns Err
ConnectFail(x) ==
    /\ adapter_state[x] = "Connecting"
    /\ Terminate(x)
    /\ AdapterOnly

\* connect_async returns Ok: Bitstamp sends its subscription, the Binance
\* stream needs none
ConnectOk(x) ==
    /\ adapter_state[x] = "Connecting"
    /\ adapter_state' = [adapter_state EXCEPT
            ![x] = IF x = "Bitstamp" THEN "Subscribing" ELSE "Streaming"]
    /\ UNCHANGED outbox
    /\ AdapterOnly

\* ws_stream.send(subscribe_msg) returns Err
SubscribeFail(x) ==
    /\ adapter_state[x] = "Subscribing"
    /\ Terminate(x)
    /\ AdapterOnly

SubscribeOk(x) ==
    /\ adapter_state[x] = "Subscribing"
    /\ adapter_state' = [adapter_state EXCEPT ![x] = "Streaming"]
    /\ UNCHANGED outbox
    /\ AdapterOnly

FramesRead == frames_read["Binance"] + frames_read["Bitstamp"]

\* read.next() yields a text frame; handle_message starts its level loops
TakeFrame(x, frame) ==
    /\ adapter_state[x] = "Streaming"
    /\ outbox[x] = <<>>
    /\ outbox' = [outbox EXCEPT ![x] = ParseFrame(x, frame)]
    /\ frames_read' = [frames_read EXCEPT ![x] = @ + 1]
    /\ UNCHANGED <<bookvars, adapter_state, bus, rx_open, aborted, main_pc,
                   exit_reason, sent, applied_seq, send_failed, unapplied_at_exit,
                   rejected, lockvars>>

ReadFrame(x, frame) ==
    /\ FramesRead < MaxFrames
    /\ TakeFrame(x, frame)
    /\ UNCHANGED last_tick

\* read.next() yields Close (or the stream ends)
ReadClose(x) ==
    /\ adapter_state[x] = "Streaming"
    /\ outbox[x] = <<>>
    /\ Terminate(x)
    /\ AdapterOnly

\* read.next() yields Err
ReadError(x) ==
    /\ adapter_state[x] = "Streaming"
    /\ outbox[x] = <<>>
    /\ Terminate(x)
    /\ AdapterOnly

\* tx.send(event).await with the Receiver alive: completes when the channel
\* has a free slot, and is suspended (no step) while it is full
Send(x) ==
    /\ adapter_state[x] = "Streaming"
    /\ outbox[x] # <<>>
    /\ rx_open
    /\ HasCapacity(bus)
    /\ bus' = Enqueue(bus, [order |-> Head(outbox[x]), seq |-> sent[x] + 1])
    /\ sent' = [sent EXCEPT ![x] = @ + 1]
    /\ outbox' = [outbox EXCEPT ![x] = Tail(@)]
    /\ UNCHANGED <<bookvars, adapter_state, rx_open, aborted, main_pc,
                   exit_reason, frames_read, applied_seq, send_failed,
                   unapplied_at_exit, last_tick, rejected, lockvars>>

\* tx.send(event).await with the Receiver dropped: Err, which `.ok()` and
\* `let _ =` discard; the level loop goes on
SendFail(x) ==
    /\ adapter_state[x] = "Streaming"
    /\ outbox[x] # <<>>
    /\ ~rx_open
    /\ send_failed' = [send_failed EXCEPT ![x] = TRUE]
    /\ outbox' = [outbox EXCEPT ![x] = Tail(@)]
    /\ UNCHANGED <<bookvars, adapter_state, bus, rx_open, aborted, main_pc,
                   exit_reason, frames_read, sent, applied_seq, unapplied_at_exit,
                   last_tick, rejected, lockvars>>

\* the aborted task is dropped at an await
Cancel(x) ==
    /\ aborted
    /\ adapter_state[x] # "Terminated"
    /\ Terminate(x)
    /\ AdapterOnly

\* ------------------------------------------------------------------- main
SendersDropped == \A x \in Exchange : adapter_state[x] = "Terminated"

\* rx.recv() yields Some(price): update_price_level(price).  A panic of
\* update_price_level unwinds main: the Receiver and the runtime are dropped.
Recv ==
    /\ main_pc = "loop"
    /\ bus # <<>>
    /\ ApplyOrder(Head(bus).order)
    /\ bus' = Dequeue(bus)
    /\ applied_seq' = [applied_seq EXCEPT ![Head(bus).order.exchange] = Head(bus).seq]
    /\ rx_open' = ~panicked'
    /\ aborted' = panicked'
    /\ UNCHANGED <<bids_iter_order, asks_iter_order, build, applied, last_order, recent,
                   adapter_state, outbox, main_pc, exit_reason, frames_read,
                   sent, send_failed, unapplied_at_exit, last_tick, rejected, lockvars>>

\* a select! branch breaks the loop.  main then runs to its end without an
\* await: binance_handle.abort(); bitstamp_handle.abort(); the three queries;
\* the JSON line; return, which drops rx.
LoopBreak(why) ==
    /\ main_pc = "loop"
    /\ ~panicked
    /\ main_pc' = "done"
    /\ exit_reason' = why
    /\ unapplied_at_exit' = Len(bus)
    /\ aborted' = TRUE
    /\ rx_open' = FALSE
    /\ UNCHANGED <<bookvars, adapter_state, outbox, bus, frames_read, sent,
                   applied_seq, send_failed, last_tick, rejected, lockvars>>

\* rx.recv() yields None: every Sender is dropped and the channel is empty
ChannelClosedWrong(b) == SendersDropped
ChannelClosed(b) == SendersDropped /\ b = <<>>

RecvClosed == ChannelClosed(bus) /\ LoopBreak("closed")

\* the run window (10 s) is over; the listeners' sleep (200 ms) ended before
WindowElapsed == (\A x \in Exchange : adapter_state[x] # "Idle") /\ LoopBreak("window")

\* signal::ctrl_c() completes
CtrlC == LoopBreak("ctrl_c")

\* ---- SpecSys: the whole process, from the spawn of the two listener tasks
InitSys ==
    /\ SysInit("Idle")
    /\ exchange_bids_price_level = <<>>
    /\ exchange_asks_price_level = <<>>
    /\ bids_iter_order \in IterOrders
    /\ asks_iter_order \in IterOrders
    /\ build \in {"debug", "release"}
    /\ panicked = FALSE
    /\ applied = 0
    /\ last_order = NoOrder
    /\ recent = <<>>

AdapterStep(x) ==
    \/ Start(x)
    \/ ConnectFail(x)
    \/ ConnectOk(x)
    \/ SubscribeFail(x)
    \/ SubscribeOk(x)
    \/ \E frame \in Frames : ReadFrame(x, frame)
    \/ ReadClose(x)
    \/ ReadError(x)
    \/ Send(x)
    \/ SendFail(x)
    \/ Cancel(x)

MainStep ==
    \/ Recv
    \/ RecvClosed
    \/ WindowElapsed
    \/ CtrlC

NextSys == MainStep \/ \E x \in Exchange : AdapterStep(x)

SpecSys == InitSys /\ [][NextSys]_vars

\* ---- SpecTicks: the Binance listener streams frames and main applies them
\* read.next() yields a Binance frame; its events are remembered as the tick
ReadTick(frame) ==
    /\ frames_read["Binance"] < MaxTicks
    /\ TakeFrame("Binance", frame)
    /\ last_tick' = ParseFrame("Binance", frame)

NextTicks ==
    \/ \E frame \in Frames : ReadTick(frame)
    \/ Send("Binance")
    \/ Recv

SpecTicks == Init /\ [][NextTicks]_vars

\* ---- SpecFull: both listeners are inside handle_message and the channel
\* has one free slot
\* the events of earlier Binance frames that main has not received yet
Backlog ==
    [i \in 1 .. (Capacity - 1) |->
        [order |-> [exchange |-> "Binance", side |-> "Buy", price |-> 1, quantity |-> 0],
         seq |-> i]]

\* the frame both listeners are handling: one bid and one ask
FullFrame ==
    [bids |-> <<[price |-> DecStr(0, <<0, 1>>), size |-> DecStr(0, <<0, 0, 0, 0, 0, 0, 0, 1>>)]>>,
     asks |-> <<[price |-> DecStr(0, <<0, 2>>), size |-> DecStr(0, <<0, 0, 0, 0, 0, 0, 0, 1>>)]>>]

InitFull ==
    /\ adapter_state = [x \in Exchange |-> "Streaming"]
    /\ outbox = [x \in Exchange |-> ParseFrame(x, FullFrame)]
    /\ bus = Backlog
    /\ rx_open = TRUE
    /\ aborted = FALSE
    /\ main_pc = "loop"
    /\ exit_reason = "none"
    /\ frames_read = [x \in Exchange |-> 0]
    /\ sent = [x \in Exchange |-> IF x = "Binance" THEN Capacity - 1 ELSE 0]
    /\ applied_seq = [x \in Exchange |-> 0]
    /\ send_failed = [x \in Exchange |-> FALSE]
    /\ unapplied_at_exit = 0
    /\ last_tick = <<>>
    /\ rejected = [x \in Exchange |-> FALSE]
    /\ LocksInit(FALSE, <<>>)
    /\ exchange_bids_price_level = <<>>
    /\ exchange_asks_price_level = <<>>
    /\ bids_iter_order \in IterOrders
    /\ asks_iter_order \in IterOrders
    /\ build \in {"debug", "release"}
    /\ panicked = FALSE
    /\ applied = 0
    /\ last_order = NoOrder
    /\ recent = <<>>

\* main receives at most MaxFullApplied events of the backlog
RecvFull == Len(bus) > Capacity - 1 - MaxFullApplied /\ Recv

\* the listeners finish the frame they are handling and read no further one
AdapterStepFull(x) ==
    \/ ReadClose(x)
    \/ ReadError(x)
    \/ Send(x)
    \/ SendFail(x)
    \/ Cancel(x)

NextFull ==
    \/ RecvFull
    \/ WindowElapsed
    \/ CtrlC
    \/ \E x \in Exchange : AdapterStepFull(x)

SpecFull == InitFull /\ [][NextFull]_vars

\* ---- SpecFrames: the listeners read any text the socket can deliver
\* `text.len() > 100_000`
MaxTextBytes == 100000

\* the longest text handle_message takes and the shortest it refuses
TextSizes == {MaxTextBytes, MaxTextBytes + 1}

\* entries of a level array that the loops pass over: "abc" for a price, a
\* size of "1" whole coin (more units than the quantity word holds), and an
\* entry that is not an array of two strings
BadStr == DecStr(None, <<>>)
TooBigStr == DecStr(1, <<>>)
GoodSizeStr == DecStr(0, <<0, 0, 0, 0, 0, 0, 0, MaxQty>>)
NotALevel == [len |-> 1]
TextLevels ==
    Levels \cup {[price |-> BadStr, size |-> GoodSizeStr],
                 [price |-> DecStr(0, <<0, 1>>), size |-> TooBigStr],
                 NotALevel}

\* the two level arrays of a depth message
TextFrames ==
    {f \in [bids : SeqsUpTo(TextLevels, MaxLevels), asks : SeqsUpTo(TextLevels, MaxLevels)] :
        Len(f.bids) + Len(f.asks) <= MaxLevels}
NoLevels == [bids |-> <<>>, asks |-> <<>>]
OneBid == [bids |-> <<[price |-> DecStr(0, <<0, 1>>), size |-> GoodSizeStr]>>, asks |-> <<>>]
BidAndAsk ==
    [bids |-> <<[price |-> DecStr(0, <<0, 1>>), size |-> GoodSizeStr]>>,
     asks |-> <<[price |-> DecStr(0, <<0, 2>>), size |-> GoodSizeStr]>>]

\* what serde_json::from_str makes of a text: an error, a value that is not
\* an object (`get` answers None for every key), or an object
InvalidJson == [json |-> "invalid"]
NotAnObject == [json |-> "array"]

\* a Bitstamp object: "event" ("absent" when the key is missing) and "data"
BitstampRoot(event, has_data, data) ==
    [json |-> "object", event |-> event, has_data |-> has_data, data |-> data]

\* a Binance object: "e" ("absent" when the key is missing), whether
\* "lastUpdateId" is there, and the arrays under "bids", "asks", "b", "a"
\* (<<>> when the key is missing)
BinanceRoot(e, lastUpdateId, long, short) ==
    [json |-> "object", e |-> e, lastUpdateId |-> lastUpdateId,
     bids |-> long.bids, asks |-> long.asks, b |-> short.bids, a |-> short.asks]

Text(bytes, root) == [bytes |-> bytes, root |-> root]

BitstampTexts ==
    {Text(MaxTextBytes + 1, BitstampRoot("data", TRUE, OneBid))}
    \cup {Text(bytes, root) : bytes \in TextSizes, root \in {InvalidJson, NotAnObject}}
    \cup {Text(MaxTextBytes, BitstampRoot(event, TRUE, OneBid)) :
            event \in {"absent", "bts:subscription_succeeded"}}
    \cup {Text(MaxTextBytes, BitstampRoot("data", FALSE, NoLevels))}
    \cup {Text(MaxTextBytes, BitstampRoot("data", TRUE, f)) : f \in TextFrames}

BinanceTexts ==
    {Text(MaxTextBytes + 1, BinanceRoot("absent", TRUE, OneBid, NoLevels))}
    \cup {Text(bytes, root) : bytes \in TextSizes, root \in {InvalidJson, NotAnObject}}
    \cup {Text(MaxTextBytes, BinanceRoot(e, FALSE, OneBid, NoLevels)) : e \in {"absent", "trade"}}
    \cup {Text(MaxTextBytes, BinanceRoot("absent", TRUE, f, NoLevels)) : f \in TextFrames}
    \cup {Text(MaxTextBytes, BinanceRoot("depthUpdate", FALSE, f, NoLevels)) :
            f \in {OneBid, BidAndAsk}}
    \cup {Text(MaxTextBytes, BinanceRoot("depthUpdate", FALSE, NoLevels, f)) :
            f \in {NoLevels, OneBid, BidAndAsk}}

Texts(x) == IF x = "Bitstamp" THEN BitstampTexts ELSE BinanceTexts

\* `text.len() > 100_000`
TooLargeWrong(text) == text.bytes > MaxTextBytes + 1
TooLarge(text) == text.bytes > MaxTextBytes

\* Bitstamp: `v.get("event").and_then(|e| e.as_str())` is None, or the event
\* is not "data", or `v.get("data")` is None
BitstampIgnores(root) ==
    \/ root.json # "object"
    \/ root.event = "absent"
    \/ root.event # "data"
    \/ ~root.has_data

\* Binance: `!is_snapshot && !is_update`
BinanceIgnores(root) ==
    LET is_snapshot == root.json = "object" /\ root.lastUpdateId
        is_update == root.json = "object" /\ root.e = "depthUpdate"
    IN  ~is_snapshot /\ ~is_update

\* handle_message returns before its level loops: Err for a text too large
\* or not JSON, Ok(()) for a message it ignores
EarlyReturn(x, text) ==
    \/ TooLarge(text)
    \/ text.root.json = "invalid"
    \/ IF x = "Bitstamp" THEN BitstampIgnores(text.root) ELSE BinanceIgnores(text.root)

\* the arrays the level loops run over: Bitstamp's `data.get("bids")` and
\* `data.get("asks")`, Binance's `depth.get("bids")` and `depth.get("asks")`
LevelArrays(x, root) ==
    IF x = "Bitstamp" THEN root.data ELSE [bids |-> root.bids, asks |-> root.asks]

\* handle_message: the events it sends, in order
handle_message(x, text) ==
    IF EarlyReturn(x, text) THEN <<>> ELSE ParseFrame(x, LevelArrays(x, text.root))

\* read.next() yields Message::Text(text); the listener stays in its loop
\* whatever handle_message returns
ReadText(x, text) ==
    /\ FramesRead < MaxTexts
    /\ adapter_state[x] = "Streaming"
    /\ outbox[x] = <<>>
    /\ outbox' = [outbox EXCEPT ![x] = handle_message(x, text)]
    /\ frames_read' = [frames_read EXCEPT ![x] = @ + 1]
    /\ rejected' = [rejected EXCEPT ![x] = @ \/ EarlyReturn(x, text)]
    /\ UNCHANGED <<bookvars, adapter_state, bus, rx_open, aborted, main_pc,
                   exit_reason, sent, applied_seq, send_failed, unapplied_at_exit,
                   last_tick, lockvars>>

\* both listeners are streaming and nothing has been applied
InitFrames ==
    /\ SysInit("Streaming")
    /\ exchange_bids_price_level = <<>>
    /\ exchange_asks_price_level = <<>>
    /\ bids_iter_order = <<"Binance", "Bitstamp">>
    /\ asks_iter_order = <<"Binance", "Bitstamp">>
    /\ build = "release"
    /\ panicked = FALSE
    /\ applied = 0
    /\ last_order = NoOrder
    /\ recent = <<>>

NextFrames ==
    \/ \E x \in Exchange : \E text \in Texts(x) : ReadText(x, text)
    \/ \E x \in Exchange : Send(x)

SpecFrames == InitFrames /\ [][NextFrames]_vars

\* ---- SpecLocks: the consumer applies orders while another task queries
\* the same OrderBook (it is shared through an Arc), one lock operation or
\* one visited level per step
\* RwLock::read returns a guard unless a write guard is out; RwLock::write
\* returns one when no guard is out
CanReadWrong(lock) == TRUE
CanRead(lock) == ~lock.writer
CanWriteWrong(lock) == TRUE
CanWrite(lock) == ~lock.writer /\ lock.readers = 0

\* a write guard is dropped
ReleaseWriteWrong(lock) == lock
ReleaseWrite(lock) == [lock EXCEPT !.writer = FALSE]

\* the shard of a DashMap that holds an Exchange key
ShardOf(x) == IF same_shard THEN "Binance" ELSE x

\* the orders the consumer applies
LockOrders == [exchange : Exchange, side : Side, price : Prices, quantity : {1}]

\* the ladder of an exchange after two earlier orders of quantity 1
LockPrefill == [poisoned |-> FALSE, map |-> [p \in Prices |-> 1]]

\* DashMap::iter() of the side's map
IterOrderOf(side) == IF side = "Buy" THEN bids_iter_order ELSE asks_iter_order

\* the side's DashMap
MapOf(side) == IF side = "Buy" THEN exchange_bids_price_level ELSE exchange_asks_price_level

LockKey(order) == <<order.side, order.exchange>>

\* the consumer's task and the querying tasks share nothing but the book
LocksOnly ==
    UNCHANGED <<adapter_state, outbox, bus, rx_open, aborted, main_pc, exit_reason,
                frames_read, sent, applied_seq, send_failed, unapplied_at_exit,
                last_tick, rejected, same_shard, writer_first, bids_iter_order, asks_iter_order, build>>

WriterOnly ==
    UNCHANGED <<r_pc, r_side, r_todo, r_prices, r_levels, r_done, r_result, r_from, r_to,
                queries, p_results, snapshot>>

\* (the mutant has a query empty the map it reads)
ReaderOnlyWrong ==
    /\ exchange_bids_price_level' = <<>>
    /\ UNCHANGED <<exchange_asks_price_level, panicked, applied,
                   last_order, recent, w_pc, w_order, hist, p_results, snapshot>>
ReaderOnly ==
    UNCHANGED <<exchange_bids_price_level, exchange_asks_price_level, panicked, applied,
                last_order, recent, w_pc, w_order, hist, p_results, snapshot>>

\* `.entry(exchange).or_insert_with(..)`: the write lock of the key's shard,
\* and a fresh ladder when the key is new
Entry(order) ==
    LET shard == <<order.side, ShardOf(order.exchange)>>
        fresh == order.exchange \notin DOMAIN MapOf(order.side)
        dm == IF fresh THEN (order.exchange :> NewLadder) @@ MapOf(order.side)
              ELSE MapOf(order.side)
    IN  /\ CanWrite(shard_lock[shard])
        /\ shard_lock' = [shard_lock EXCEPT ![shard].writer = TRUE]
        /\ exchange_bids_price_level' =
               IF order.side = "Buy" THEN dm ELSE exchange_bids_price_level
        /\ exchange_asks_price_level' =
               IF order.side = "Sell" THEN dm ELSE exchange_asks_price_level
        /\ hist' = IF fresh THEN [hist EXCEPT ![LockKey(order)] = @ \cup {NewLadder.map}]
                   ELSE hist
        /\ w_pc' = "entry"
        /\ w_order' = order
        /\ UNCHANGED <<panicked, applied, last_order, recent, ladder_lock>>
        /\ WriterOnly /\ LocksOnly

\* update_price_level_for_exchange called and its shard lock taken, in one step
W_Entry(order) ==
    /\ w_pc = "idle"
    /\ ~panicked
    /\ applied < MaxLockApplied
    /\ Entry(order)

\* update_price_level_for_exchange is called: the consumer is about to ask
\* for the shard's lock
W_Call(order) ==
    /\ w_pc = "idle"
    /\ ~panicked
    /\ applied < MaxLiveApplied
    /\ w_pc' = "call"
    /\ w_order' = order
    /\ UNCHANGED <<exchange_bids_price_level, exchange_asks_price_level, panicked,
                   applied, last_order, recent, shard_lock, ladder_lock, hist>>
    /\ WriterOnly /\ LocksOnly

\* the consumer gets the shard's lock it has been waiting for
W_Shard ==
    /\ w_pc = "call"
    /\ Entry(w_order)

\* `(*price_level.value()).write()`, the poisoned guard taken with into_inner
W_Write ==
    /\ w_pc = "entry"
    /\ CanWrite(ladder_lock[LockKey(w_order)])
    /\ ladder_lock' = [ladder_lock EXCEPT ![LockKey(w_order)].writer = TRUE]
    /\ w_pc' = "write"
    /\ UNCHANGED <<exchange_bids_price_level, exchange_asks_price_level, panicked,
                   applied, last_order, recent, shard_lock, w_order, hist>>
    /\ WriterOnly /\ LocksOnly

\* `*entry += quantity`, then the guard and the shard reference are dropped
W_Update ==
    LET after == UpdateBook(Book, build, w_order)
        dm == IF w_order.side = "Buy" THEN after.bids ELSE after.asks
    IN  /\ w_pc = "write"
        /\ update_price_level(w_order)
        /\ hist' = [hist EXCEPT ![LockKey(w_order)] = @ \cup {dm[w_order.exchange].map}]
        /\ ladder_lock' = [ladder_lock EXCEPT ![LockKey(w_order)] = ReleaseWrite(@)]
        /\ shard_lock' =
               [shard_lock EXCEPT ![<<w_order.side, ShardOf(w_order.exchange)>>] = ReleaseWrite(@)]
        /\ w_pc' = "idle"
        /\ w_order' = NoOrder
        /\ WriterOnly
        /\ UNCHANGED <<adapter_state, outbox, bus, rx_open, aborted, main_pc, exit_reason,
                       frames_read, sent, applied_seq, send_failed, unapplied_at_exit,
                       last_tick, rejected, same_shard, writer_first>>

\* top_bids_all_exchanges / top_asks_all_exchanges is called by a task
Query(rd, side) ==
    /\ r_pc[rd] = "idle"
    /\ r_side' = [r_side EXCEPT ![rd] = side]
    /\ r_todo' = [r_todo EXCEPT ![rd] = IterOrderOf(side)]
    /\ r_done' = [r_done EXCEPT ![rd] = <<>>]
    /\ r_from' = [r_from EXCEPT ![rd] = applied]
    /\ r_pc' = [r_pc EXCEPT ![rd] = "iter"]
    /\ UNCHANGED <<shard_lock, ladder_lock, r_prices, r_levels, r_result, r_to>>
    /\ ReaderOnly /\ LocksOnly

\* one of a bounded number of calls
R_Call(rd, side) == queries < MaxQueries /\ queries' = queries + 1 /\ Query(rd, side)

\* a task that queries again and again
L_Call(rd, side) == queries' = queries /\ Query(rd, side)

\* the consumer waits for the shard's lock and the lock lets it go first
WriterWaits(shard) ==
    /\ writer_first
    /\ w_pc = "call"
    /\ shard = <<w_order.side, ShardOf(w_order.exchange)>>

\* the iterator enters the next shard: its read lock
R_Shard(rd) ==
    /\ r_pc[rd] = "iter"
    /\ r_todo[rd] # <<>>
    /\ LET shard == <<r_side[rd], ShardOf(Head(r_todo[rd]))>>
       IN  /\ CanRead(shard_lock[shard])
           /\ ~WriterWaits(shard)
           /\ shard_lock' = [shard_lock EXCEPT ![shard].readers = @ + 1]
    /\ r_pc' = [r_pc EXCEPT ![rd] = "entry"]
    /\ UNCHANGED <<ladder_lock, r_side, r_todo, r_prices, r_levels, r_done, r_result,
                   r_from, r_to, queries>>
    /\ ReaderOnly /\ LocksOnly

\* the iterator yields the key's entry and `map_arc.read()` is Ok
R_Read(rd) ==
    LET x == Head(r_todo[rd])
        side == r_side[rd]
    IN  /\ r_pc[rd] = "entry"
        /\ x \in DOMAIN MapOf(side)
        /\ ~MapOf(side)[x].poisoned
        /\ CanRead(ladder_lock[<<side, x>>])
        /\ ladder_lock' = [ladder_lock EXCEPT ![<<side, x>>].readers = @ + 1]
        /\ r_prices' = [r_prices EXCEPT ![rd] = KeysAscending(DOMAIN MapOf(side)[x].map)]
        /\ r_levels' = [r_levels EXCEPT ![rd] = <<>>]
        /\ r_pc' = [r_pc EXCEPT ![rd] = "ladder"]
        /\ UNCHANGED <<shard_lock, r_side, r_todo, r_done, r_result, r_from, r_to, queries>>
        /\ ReaderOnly /\ LocksOnly

\* the shard has no entry for the key, or `map_arc.read()` is Err (poisoned)
R_Skip(rd) ==
    LET x == Head(r_todo[rd])
        side == r_side[rd]
    IN  /\ r_pc[rd] = "entry"
        /\ IF x \in DOMAIN MapOf(side) THEN MapOf(side)[x].poisoned ELSE TRUE
        /\ r_pc' = [r_pc EXCEPT ![rd] = "next"]
        /\ UNCHANGED <<shard_lock, ladder_lock, r_side, r_todo, r_prices, r_levels, r_done,
                       r_result, r_from, r_to, queries>>
        /\ ReaderOnly /\ LocksOnly

\* one turn of `for (&price, &qty) in guard.iter()`
R_Level(rd) ==
    LET x == Head(r_todo[rd])
        price == Head(r_prices[rd])
        qty == MapOf(r_side[rd])[x].map[price]
    IN  /\ r_pc[rd] = "ladder"
        /\ r_prices[rd] # <<>>
        /\ r_levels' = [r_levels EXCEPT ![rd] =
                           IF qty = 0 THEN @ ELSE Append(@, <<x, price, qty>>)]
        /\ r_prices' = [r_prices EXCEPT ![rd] = Tail(@)]
        /\ UNCHANGED <<shard_lock, ladder_lock, r_pc, r_side, r_todo, r_done, r_result,
                       r_from, r_to, queries>>
        /\ ReaderOnly /\ LocksOnly

\* the inner loop ends: the read guard is dropped
R_Unlock(rd) ==
    LET x == Head(r_todo[rd])
    IN  /\ r_pc[rd] = "ladder"
        /\ r_prices[rd] = <<>>
        /\ ladder_lock' = [ladder_lock EXCEPT ![<<r_side[rd], x>>].readers = @ - 1]
        /\ r_done' = [r_done EXCEPT ![rd] = Append(@, [exchange |-> x, levels |-> r_levels[rd]])]
        /\ r_levels' = [r_levels EXCEPT ![rd] = <<>>]
        /\ r_pc' = [r_pc EXCEPT ![rd] = "next"]
        /\ UNCHANGED <<shard_lock, r_side, r_todo, r_prices, r_result, r_from, r_to, queries>>
        /\ ReaderOnly /\ LocksOnly

\* the iterator moves on: it keeps the shard's lock when the next key is in
\* the same shard and drops it otherwise
R_Next(rd) ==
    LET x == Head(r_todo[rd])
        rest == Tail(r_todo[rd])
        stays == rest # <<>> /\ ShardOf(Head(rest)) = ShardOf(x)
    IN  /\ r_pc[rd] = "next"
        /\ r_todo' = [r_todo EXCEPT ![rd] = rest]
        /\ shard_lock' = IF stays THEN shard_lock
                         ELSE [shard_lock EXCEPT ![<<r_side[rd], ShardOf(x)>>].readers = @ - 1]
        /\ r_pc' = [r_pc EXCEPT ![rd] = IF stays THEN "entry" ELSE "iter"]
        /\ UNCHANGED <<ladder_lock, r_side, r_prices, r_levels, r_done, r_result,
                       r_from, r_to, queries>>
        /\ ReaderOnly /\ LocksOnly

\* the levels of the finished ladders, in the order they were pushed
RECURSIVE Pushed(_)
Pushed(done) == IF done = <<>> THEN <<>> ELSE Head(done).levels \o Pushed(Tail(done))

\* the outer loop ends: sort_by, truncate, return
R_Return(rd) ==
    /\ r_pc[rd] = "iter"
    /\ r_todo[rd] = <<>>
    /\ r_result' = [r_result EXCEPT ![rd] = Truncate(SortBy(Pushed(r_done[rd]), <<>>, r_side[rd]))]
    /\ r_to' = [r_to EXCEPT ![rd] = applied]
    /\ r_pc' = [r_pc EXCEPT ![rd] = "idle"]
    /\ UNCHANGED <<shard_lock, ladder_lock, r_side, r_todo, r_prices, r_levels, r_done,
                   r_from, queries>>
    /\ ReaderOnly /\ LocksOnly

\* Binance's bid ladder holds two levels; the other ladders do not exist yet
InitLocks ==
    /\ ChannelInit("Streaming")
    /\ \E shared \in BOOLEAN :
           LocksInit(shared, [k \in Side \X Exchange |->
                                 IF k = <<"Buy", "Binance">> THEN {LockPrefill.map} ELSE {}])
    /\ exchange_bids_price_level = [x \in {"Binance"} |-> LockPrefill]
    /\ exchange_asks_price_level = <<>>
    /\ bids_iter_order \in IterOrders
    /\ asks_iter_order = <<"Binance", "Bitstamp">>
    /\ build = "release"
    /\ panicked = FALSE
    /\ applied = 0
    /\ last_order = NoOrder
    /\ recent = <<>>

WriterStep ==
    \/ \E order \in LockOrders : W_Entry(order)
    \/ W_Write
    \/ W_Update

\* the steps of a query that has been called
QueryStep(rd) ==
    \/ R_Shard(rd)
    \/ R_Read(rd)
    \/ R_Skip(rd)
    \/ R_Level(rd)
    \/ R_Unlock(rd)
    \/ R_Next(rd)
    \/ R_Return(rd)

ReaderStep(rd) ==
    \/ \E side \in Side : R_Call(rd, side)
    \/ QueryStep(rd)

NextLocks == WriterStep \/ ReaderStep(1)

SpecLocks == InitLocks /\ [][NextLocks]_vars

\* ---- SpecPublish: the consumer applies orders while the snapshot stream
\* of book_summary builds one snapshot after the other from the shared book
\* the queries of one snapshot: top_bids, top_asks, and the two that
\* spread_all_exchanges makes itself
PublishSides == <<"Buy", "Sell", "Buy", "Sell">>

\* the next query of the snapshot under construction is called
P_Call ==
    /\ queries < Len(PublishSides)
    /\ Len(p_results) = queries
    /\ queries' = queries + 1
    /\ Query(1, PublishSides[queries + 1])

\* the query's vector is bound to its local
P_Keep ==
    /\ r_pc[1] = "idle"
    /\ Len(p_results) < queries
    /\ p_results' = Append(p_results, [levels |-> r_result[1], from |-> r_from[1], to |-> r_to[1]])
    /\ UNCHANGED <<exchange_bids_price_level, exchange_asks_price_level, panicked, applied,
                   last_order, recent, w_pc, w_order, hist, snapshot, shard_lock, ladder_lock,
                   r_pc, r_side, r_todo, r_prices, r_levels, r_done, r_result, r_from, r_to,
                   queries>>
    /\ LocksOnly

\* the name the stream gives an exchange
ExchangeStr(x) == IF x = "Binance" THEN "binance" ELSE "bitstamp"

\* a Level of the Summary, from a (exchange, price_cents, qty_smallest) tuple
Level(l) == [exchange |-> ExchangeStr(l[1]), price |-> CentsToFloat(l[2]), amount |-> [e8 |-> l[3]]]

ToLevels(top) == [i \in DOMAIN top |-> Level(top[i])]

\* `spread_cents.map(|c| c as f64 / 100.0)`
MapSpread(spread_cents) ==
    IF spread_cents = NoSpread THEN Null ELSE CentsToFloat(spread_cents)

\* `.unwrap_or(0.0)`
UnwrapOrZero(opt) == IF opt.null THEN CentsToFloat(0) ELSE opt

\* the Summary built from the locals top_bids, top_asks and spread_cents
Summary(top_bids, top_asks, spread_cents) ==
    [published |-> TRUE,
     bids |-> ToLevels(top_bids),
     asks |-> ToLevels(top_asks),
     spread_cents |-> spread_cents,
     spread |-> UnwrapOrZero(MapSpread(spread_cents))]

\* the stream yields the Summary
P_Publish ==
    /\ Len(p_results) = Len(PublishSides)
    /\ snapshot' = Summary(p_results[1].levels, p_results[2].levels,
                           SpreadOf(p_results[3].levels, p_results[4].levels))
    /\ p_results' = <<>>
    /\ queries' = 0
    /\ UNCHANGED <<exchange_bids_price_level, exchange_asks_price_level, panicked, applied,
                   last_order, recent, w_pc, w_order, hist, shard_lock, ladder_lock,
                   r_pc, r_side, r_todo, r_prices, r_levels, r_done, r_result, r_from, r_to>>
    /\ LocksOnly

\* the one level Binance's bid ladder holds at first
PublishPrefill == [poisoned |-> FALSE, map |-> [p \in {1} |-> 1]]

InitPublish ==
    /\ ChannelInit("Streaming")
    /\ \E shared \in BOOLEAN :
           LocksInit(shared, [k \in Side \X Exchange |->
                                 IF k = <<"Buy", "Binance">> THEN {PublishPrefill.map} ELSE {}])
    /\ exchange_bids_price_level = [x \in {"Binance"} |-> PublishPrefill]
    /\ exchange_asks_price_level = <<>>
    /\ bids_iter_order = <<"Binance", "Bitstamp">>
    /\ asks_iter_order = <<"Binance", "Bitstamp">>
    /\ build = "release"
    /\ panicked = FALSE
    /\ applied = 0
    /\ last_order = NoOrder
    /\ recent = <<>>

NextPublish ==
    \/ WriterStep
    \/ P_Call
    \/ QueryStep(1)
    \/ P_Keep
    \/ P_Publish

SpecPublish == InitPublish /\ [][NextPublish]_vars

\* ---- SpecExit: the whole process, with main's way from the loop to its
\* return taken one statement at a time while the listener tasks run on

\* a select! branch breaks the loop
Break(why) ==
    /\ main_pc = "loop"
    /\ ~panicked
    /\ main_pc' = "abort"
    /\ exit_reason' = why
    /\ unapplied_at_exit' = Len(bus)
    /\ UNCHANGED <<bookvars, adapter_state, outbox, bus, rx_open, aborted, frames_read, sent,
                   applied_seq, send_failed, last_tick, rejected, lockvars>>

\* rx.recv() yields None
ExitClosed == ChannelClosed(bus) /\ Break("closed")

\* the run window (10 s) is over; the listeners' sleep (200 ms) ended before
ExitWindow == (\A x \in Exchange : adapter_state[x] # "Idle") /\ Break("window")

\* signal::ctrl_c() completes
ExitCtrlC == Break("ctrl_c")

MainOnly ==
    UNCHANGED <<bookvars, adapter_state, outbox, bus, exit_reason, frames_read, sent,
                applied_seq, send_failed, unapplied_at_exit, last_tick, rejected,
                same_shard, writer_first, shard_lock, ladder_lock, w_pc, w_order, r_pc,
                r_side, r_todo, r_prices, r_levels, r_done, r_result, r_from, r_to,
                queries, hist>>

\* binance_handle.abort(); bitstamp_handle.abort()
M_Abort ==
    /\ main_pc = "abort"
    /\ main_pc' = "snapshot"
    /\ aborted' = TRUE
    /\ UNCHANGED <<rx_open, p_results, snapshot>>
    /\ MainOnly

\* a query of the book by the task that is its only writer
QueryOf(side) == IF side = "Buy" THEN top_bids_all_exchanges ELSE top_asks_all_exchanges

\* the next of top_bids, top_asks and the two queries of spread_all_exchanges
M_Query ==
    /\ main_pc = "snapshot"
    /\ Len(p_results) < Len(PublishSides)
    /\ p_results' = Append(p_results, [levels |-> QueryOf(PublishSides[Len(p_results) + 1]),
                                       from |-> applied, to |-> applied])
    /\ UNCHANGED <<main_pc, aborted, rx_open, snapshot>>
    /\ MainOnly

\* the JSON value main prints: the Option of the spread is kept
FinalJson(top_bids, top_asks, spread_cents) ==
    [published |-> TRUE,
     bids |-> ToLevels(top_bids),
     asks |-> ToLevels(top_asks),
     spread_cents |-> spread_cents,
     spread |-> MapSpread(spread_cents)]

\* println!, then main returns: the Receiver is dropped
M_Print ==
    /\ main_pc = "snapshot"
    /\ Len(p_results) = Len(PublishSides)
    /\ snapshot' = FinalJson(p_results[1].levels, p_results[2].levels,
                             SpreadOf(p_results[3].levels, p_results[4].levels))
    /\ main_pc' = "done"
    /\ rx_open' = FALSE
    /\ UNCHANGED <<aborted, p_results>>
    /\ MainOnly

InitExit ==
    /\ SysInit("Idle")
    /\ exchange_bids_price_level = <<>>
    /\ exchange_asks_price_level = <<>>
    /\ bids_iter_order \in IterOrders
    /\ asks_iter_order \in IterOrders
    /\ build \in {"debug", "release"}
    /\ panicked = FALSE
    /\ applied = 0
    /\ last_order = NoOrder
    /\ recent = <<>>

MainExitStep ==
    \/ Recv
    \/ ExitClosed
    \/ ExitWindow
    \/ ExitCtrlC
    \/ M_Abort
    \/ M_Query
    \/ M_Print

NextExit == MainExitStep \/ \E x \in Exchange : AdapterStep(x)

SpecExit == InitExit /\ [][NextExit]_vars

\* ---- SpecLive: the consumer applies orders while NReaders tasks query the
\* bids again and again; a task that asks for a lock gets it if the lock is
\* free again and again (the lock's queue), and a task that can step does
\* (the scheduler). Whether a shard's lock lets a waiting writer go before
\* new readers depends on the lock's implementation.
InitLive ==
    /\ ChannelInit("Streaming")
    /\ \E first \in BOOLEAN :
           LocksInitWith(TRUE, [k \in Side \X Exchange |->
                                   IF k = <<"Buy", "Binance">> THEN {LockPrefill.map} ELSE {}],
                         first)
    /\ exchange_bids_price_level = [x \in {"Binance"} |-> LockPrefill]
    /\ exchange_asks_price_level = <<>>
    /\ bids_iter_order = <<"Binance", "Bitstamp">>
    /\ asks_iter_order = <<"Binance", "Bitstamp">>
    /\ build = "release"
    /\ panicked = FALSE
    /\ applied = 0
    /\ last_order = NoOrder
    /\ recent = <<>>

\* the orders the consumer applies in SpecLive
LiveOrders == [exchange : {"Binance"}, side : {"Buy"}, price : {1}, quantity : {1}]

\* the steps of an apply that has been called
ApplyStep ==
    \/ W_Shard
    \/ W_Write
    \/ W_Update

NextLive ==
    \/ \E order \in LiveOrders : W_Call(order)
    \/ ApplyStep
    \/ \E rd \in Readers : L_Call(rd, "Buy")
    \/ \E rd \in Readers : QueryStep(rd)

FairLive ==
    /\ SF_vars(ApplyStep)
    /\ \A rd \in Readers : SF_vars(QueryStep(rd))

SpecLive == InitLive /\ [][NextLive]_vars /\ FairLive

\* ---------------------------------------------------------------- claims
DashMapOf(side) == IF side = "Buy" THEN exchange_bids_price_level ELSE exchange_asks_price_level

\* what the (exchange, side) ladder holds at price; -1 when the key is absent
StoredAt(exchange, side, price) == Stored(DashMapOf(side), exchange, price)

\* a step of the consumer that applies one order (recorded in last_order')
Applies == applied' = applied + 1

Ladders == <<exchange_bids_price_level, exchange_asks_price_level>>

TopOf(side) == IF side = "Buy" THEN top_bids_all_exchanges ELSE top_asks_all_exchanges

Entries(levels) == {levels[i] : i \in 1 .. Len(levels)}

\* the levels a ladder map holds with a non-zero quantity
NonZeroLevels(dm) ==
    {<<x, p, dm[x].map[p]>> : <<x, p>> \in
        {xp \in Exchange \X (Prices \cup DeepPrices) :
            Stored(dm, xp[1], xp[2]) > 0}}

MinOf(a, b) == IF a < b THEN a ELSE b

\* C1: two consecutive orders at the same (exchange, side, price) with
\* non-zero quantities q1 then q2 leave q2 at that price (overwrite, not sum).
C1_OverwriteNotSum ==
    [][(/\ Applies
        /\ last_order # NoOrder
        /\ Coord(last_order') = Coord(last_order)
        /\ last_order.quantity # 0
        /\ last_order'.quantity # 0)
       => StoredAt(last_order.exchange, last_order.side, last_order.price)'
              = last_order'.quantity]_vars

\* C2: applying an order a second time leaves the ladders as the first
\* application left them (apply is idempotent).
C2_ApplyIdempotent ==
    [][(Applies /\ last_order' = last_order) => Ladders' = Ladders]_vars

\* C3: the value stored at each coordinate is determined by the most recent
\* order at that coordinate alone: its quantity, or absent if that quantity
\* was 0; a coordinate no order was applied at is absent.
C3_LastWriterWins ==
    \A x \in Exchange, s \in Side, p \in Prices :
        StoredAt(x, s, p) =
            IF <<x, s, p>> \in DOMAIN recent /\ recent[<<x, s, p>>] # 0
                THEN recent[<<x, s, p>>]
                ELSE -1

\* C4: no ladder of any exchange or side holds a key whose quantity is 0.
C4_NoZeroQuantityStored ==
    \A x \in Exchange, s \in Side, p \in Prices : StoredAt(x, s, p) # 0

\* C5: applying an order with quantity 0 removes the key at its price from
\* the target ladder, so the query of that side lists no level of that
\* exchange at that price; if the key was absent the ladder is unchanged.
C5_ZeroRemoves ==
    [][(Applies /\ last_order'.quantity = 0)
       => LET o == last_order'
              dmNext == IF o.side = "Buy" THEN exchange_bids_price_level'
                                          ELSE exchange_asks_price_level'
              topNext == IF o.side = "Buy"
                             THEN TopBidsOf(exchange_bids_price_level', bids_iter_order')
                             ELSE TopAsksOf(exchange_asks_price_level', asks_iter_order')
          IN  /\ Stored(dmNext, o.exchange, o.price) = -1
              /\ \A lv \in Entries(topNext) : ~(lv[1] = o.exchange /\ lv[2] = o.price)
              /\ (Stored(DashMapOf(o.side), o.exchange, o.price) = -1 => Ladders' = Ladders)]_vars

\* C6 as stated: top_bids is sorted strictly descending by price and
\* top_asks strictly ascending, also when two exchanges share a price.
C6_StrictlySorted ==
    LET bids == top_bids_all_exchanges
        asks == top_asks_all_exchanges
    IN  /\ \A i \in 1 .. Len(bids) - 1 : bids[i][2] > bids[i + 1][2]
        /\ \A i \in 1 .. Len(asks) - 1 : asks[i][2] < asks[i + 1][2]

\* C6 amended: top_bids is sorted descending and top_asks ascending by
\* price, strictly except that two entries of different exchanges may share
\* a price (entries of one exchange have strictly ordered prices).
C6_SortedUpToTies ==
    LET bids == top_bids_all_exchanges
        asks == top_asks_all_exchanges
    IN  /\ \A i, j \in 1 .. Len(bids) :
               i < j => \/ bids[i][2] > bids[j][2]
                        \/ (bids[i][2] = bids[j][2] /\ bids[i][1] # bids[j][1])
        /\ \A i, j \in 1 .. Len(asks) :
               i < j => \/ asks[i][2] < asks[j][2]
                        \/ (asks[i][2] = asks[j][2] /\ asks[i][1] # asks[j][1])

\* C6 witness: both exchanges hold a bid at one price and the query lists both
C6_Witness ==
    LET bids == top_bids_all_exchanges
    IN  /\ applied > 0
        /\ \E i \in 1 .. Len(bids) - 1 :
               bids[i][2] = bids[i + 1][2] /\ bids[i][1] # bids[i + 1][1]

\* C7: the length of top_bids (top_asks) is min(10, number of non-zero
\* levels over all exchanges' bid (ask) ladders), for every query the
\* running process answers.
C7_LengthIsMinTenLevels ==
    ~panicked =>
        /\ Len(top_bids_all_exchanges)
               = MinOf(TopN, Cardinality(NonZeroLevels(exchange_bids_price_level)))
        /\ Len(top_asks_all_exchanges)
               = MinOf(TopN, Cardinality(NonZeroLevels(exchange_asks_price_level)))

\* C7 witness: more than 10 non-zero bid levels exist after an order was
\* applied, and fewer than 10 non-zero ask levels
C7_Witness ==
    /\ ~panicked
    /\ applied > 0
    /\ Cardinality(NonZeroLevels(exchange_bids_price_level)) > TopN
    /\ Len(top_bids_all_exchanges) = TopN
    /\ Cardinality(NonZeroLevels(exchange_asks_price_level)) \in 1 .. (TopN - 1)

\* C8: every non-zero bid level the query omits has a price <= the lowest
\* returned bid price; every omitted ask level a price >= the highest
\* returned ask price.
C8_BestLevelsReturned ==
    LET bids == Entries(top_bids_all_exchanges)
        asks == Entries(top_asks_all_exchanges)
    IN  ~panicked =>
            /\ \A lv \in NonZeroLevels(exchange_bids_price_level) \ bids :
                   /\ bids # {}
                   /\ \A r \in bids : lv[2] <= r[2]
            /\ \A lv \in NonZeroLevels(exchange_asks_price_level) \ asks :
                   /\ asks # {}
                   /\ \A r \in asks : lv[2] >= r[2]

\* C8 witness: the ask query omits a non-zero level after an order was applied
C8_Witness ==
    /\ ~panicked
    /\ applied > 0
    /\ NonZeroLevels(exchange_asks_price_level) \ Entries(top_asks_all_exchanges) # {}

\* C9: when Binance (Primary) and Bitstamp (Secondary) both hold a level at
\* one price, top_bids and top_asks list the Binance entry first.
C9_PrimaryBeforeSecondary ==
    ~panicked =>
        \A s \in Side :
            LET top == TopOf(s)
            IN  \A i, j \in 1 .. Len(top) :
                    (i < j /\ top[i][2] = top[j][2]) => top[i][1] = "Binance"

\* C10 as stated: if Binance holds a and Bitstamp holds b at bid price p,
\* top_bids has the two entries (Binance, p, a) and (Bitstamp, p, b).
C10_BothEntriesListed ==
    LET bids == Entries(top_bids_all_exchanges)
    IN  ~panicked =>
            \A p \in Prices \cup DeepPrices :
                LET a == StoredAt("Binance", "Buy", p)
                    b == StoredAt("Bitstamp", "Buy", p)
                IN  (a > 0 /\ b > 0) =>
                        /\ <<"Binance", p, a>> \in bids
                        /\ <<"Bitstamp", p, b>> \in bids

\* C10 amended: no entry of top_bids carries a merged quantity (each is
\* (exchange, p, that exchange's own stored quantity), once per exchange
\* and price), and when Binance holds a and Bitstamp holds b at price p,
\* both non-zero, and at most 8 non-zero bid levels are priced above p, both
\* (Binance, p, a) and (Bitstamp, p, b) are entries.
C10_NeverMerged ==
    LET top == top_bids_all_exchanges
        bids == Entries(top)
        levels == NonZeroLevels(exchange_bids_price_level)
    IN  ~panicked =>
            /\ \A i \in 1 .. Len(top) :
                   /\ top[i][3] = StoredAt(top[i][1], "Buy", top[i][2])
                   /\ \A j \in 1 .. Len(top) :
                          (top[j][1] = top[i][1] /\ top[j][2] = top[i][2]) => j = i
            /\ \A p \in Prices \cup DeepPrices :
                   LET a == StoredAt("Binance", "Buy", p)
                       b == StoredAt("Bitstamp", "Buy", p)
                   IN  (/\ a > 0
                        /\ b > 0
                        /\ Cardinality({lv \in levels : lv[2] > p}) <= TopN - 2) =>
                           /\ <<"Binance", p, a>> \in bids
                           /\ <<"Bitstamp", p, b>> \in bids

\* C10 witness: more than 10 non-zero bid levels exist after an order was
\* applied, both exchanges hold different quantities at one bid price and
\* both entries are listed
C10_Witness ==
    LET bids == Entries(top_bids_all_exchanges)
    IN  /\ ~panicked
        /\ applied > 0
        /\ Cardinality(NonZeroLevels(exchange_bids_price_level)) > TopN
        /\ \E p \in DeepPrices :
               LET a == StoredAt("Binance", "Buy", p)
                   b == StoredAt("Bitstamp", "Buy", p)
               IN  /\ a > 0 /\ b > 0 /\ a # b
                   /\ <<"Binance", p, a>> \in bids
                   /\ <<"Bitstamp", p, b>> \in bids

\* the best prices of the merged book, from the ladders themselves
BidPrices == {lv[2] : lv \in NonZeroLevels(exchange_bids_price_level)}
AskPrices == {lv[2] : lv \in NonZeroLevels(exchange_asks_price_level)}
BestBid == CHOOSE p \in BidPrices : \A q \in BidPrices : q <= p
BestAsk == CHOOSE p \in AskPrices : \A q \in AskPrices : p <= q

\* C11: spread() is none if the merged bids or the merged asks are empty,
\* and otherwise max(0, best ask price - best bid price): 0 for a crossed
\* or locked book, never a negative or wrapped value.
C11_SpreadSaturates ==
    ~panicked =>
        spread_all_exchanges =
            IF BidPrices = {} \/ AskPrices = {} THEN NoSpread
            ELSE IF BestAsk > BestBid THEN BestAsk - BestBid
            ELSE 0

\* C11 witness: a crossed book (best bid above best ask) whose spread is 0
C11_Witness ==
    /\ ~panicked
    /\ BidPrices # {} /\ AskPrices # {}
    /\ BestBid > BestAsk
    /\ spread_all_exchanges = 0

\* C12: for every (exchange, side) the consumer can apply an event that
\* empties exactly that ladder: afterwards the query of that side lists no
\* level of that exchange, and the other ladders are as before.
C12_LadderCanBeCleared ==
    ~panicked =>
        \A x \in Exchange, s \in Side :
            \E event \in Orders :
                LET after == UpdateBook(Book, build, event)
                    top == IF s = "Buy" THEN TopBidsOf(after.bids, bids_iter_order)
                                        ELSE TopAsksOf(after.asks, asks_iter_order)
                    now == IF s = "Buy" THEN top_bids_all_exchanges ELSE top_asks_all_exchanges
                IN  /\ ~after.panic
                    /\ \A lv \in Entries(top) : lv[1] # x
                    /\ {lv \in Entries(top) : lv[1] # x} = {lv \in Entries(now) : lv[1] # x}

\* the events of exchange x the bus holds, in bus order
BusOf(x) == SelectSeq(bus, LAMBDA event : event.order.exchange = x)

\* every event of the last Binance frame has been applied
TickApplied ==
    /\ ~panicked
    /\ frames_read["Binance"] >= 1
    /\ outbox["Binance"] = <<>>
    /\ BusOf("Binance") = <<>>

TickPrices(side) == {event.price : event \in {e \in Entries(last_tick) : e.side = side}}

LadderPrices(x, side) ==
    {lv[2] : lv \in {l \in NonZeroLevels(DashMapOf(side)) : l[1] = x}}

\* C13: after a Binance tick has been applied, the Binance ladder of each
\* side the tick carried holds that tick's levels only: no level of an
\* earlier tick remains.
C13_NoStaleLevel ==
    TickApplied =>
        \A side \in Side :
            TickPrices(side) # {} => LadderPrices("Binance", side) \subseteq TickPrices(side)

\* the levels of a frame's array whose size is the string "0"
ZeroLevels(levels) == {level \in Entries(levels) : IsZeroStr(level.size)}

Forwarded(events, side, level) ==
    \E event \in Entries(events) :
        /\ event.side = side
        /\ event.price = parse_price_cents(level.price)
        /\ event.quantity = 0

\* C14: when the Bitstamp listener reads a frame, every level of the frame
\* whose size is the string "0" is forwarded as an event of quantity 0.
C14_ZeroSizeForwarded ==
    [][frames_read'["Bitstamp"] # frames_read["Bitstamp"] =>
        \A frame \in Frames :
            ReadFrame("Bitstamp", frame) =>
                /\ \A level \in ZeroLevels(frame.bids) :
                        Forwarded(outbox'["Bitstamp"], "Buy", level)
                /\ \A level \in ZeroLevels(frame.asks) :
                        Forwarded(outbox'["Bitstamp"], "Sell", level)]_vars

\* C15: the consumer applies the events of one adapter in the order the
\* adapter sent them, whatever the other adapter sends in between and also
\* when senders wait for a full bus: the events of an adapter in the bus
\* carry consecutive send numbers after the one applied last, and each
\* applied event is the next one sent.
C15_PerAdapterFifo ==
    [][\A x \in Exchange :
        /\ LET events == BusOf(x)
           IN  \A i \in 1 .. Len(events) : events[i].seq = applied_seq[x] + i
        /\ applied_seq'[x] # applied_seq[x] => applied_seq'[x] = applied_seq[x] + 1]_vars

\* C15 witness: the bus is full, it holds events of both adapters, Bitstamp
\* still waits to send, and the consumer has applied events
C15_Witness ==
    /\ Len(bus) = Capacity
    /\ BusOf("Bitstamp") # <<>>
    /\ Len(BusOf("Binance")) > Capacity - 1 - MaxFullApplied
    /\ outbox["Bitstamp"] # <<>>
    /\ applied_seq["Binance"] >= 1

\* C16: the bus never holds more than 1000 events; a step changes it only
\* by appending the sender's next event while there is a free slot or by
\* removing the front event; while the bus is full a sender with events to
\* send keeps them (it is suspended) unless its task is cancelled or the
\* receiver is gone.
C16_BoundedNoLoss ==
    [][/\ Len(bus') <= Capacity
       /\ \/ bus' = bus
          \/ bus # <<>> /\ bus' = Tail(bus)
          \/ /\ Len(bus) < Capacity
             /\ \E x \in Exchange :
                    /\ outbox[x] # <<>>
                    /\ bus' = Append(bus, [order |-> Head(outbox[x]), seq |-> sent[x] + 1])
                    /\ outbox'[x] = Tail(outbox[x])
       /\ \A x \in Exchange :
            (Len(bus) = Capacity /\ outbox[x] # <<>> /\ rx_open) =>
                \/ outbox'[x] = outbox[x]
                \/ adapter_state'[x] = "Terminated"]_vars

\* C16 witness: the bus is full and a listener is suspended in send
C16_Witness ==
    /\ Len(bus) = Capacity
    /\ rx_open
    /\ \E x \in Exchange : adapter_state[x] = "Streaming" /\ outbox[x] # <<>>

\* C17: once a send of adapter x has failed, x attempts no further send and
\* reads no further frame.
C17_ExitOnSendFailure ==
    [][\A x \in Exchange :
        send_failed[x] => ~SendFail(x) /\ frames_read'[x] = frames_read[x]]_vars

\* C18: when the shutdown signal ends the loop, every event the bus had
\* accepted has been applied.
C18_DrainedOnSignal == exit_reason = "ctrl_c" => unapplied_at_exit = 0

LoopEnds == main_pc = "loop" /\ main_pc' = "done"

C20_ForwardOnly ==
    [][\A x \in Exchange :
        /\ Rank(adapter_state'[x]) >= Rank(adapter_state[x])
        /\ (ConnectFail(x) \/ SubscribeFail(x) \/ ReadClose(x) \/ ReadError(x)) =>
                adapter_state'[x] = "Terminated"
        /\ sent'[x] # sent[x] =>
                adapter_state[x] = "Streaming" /\ adapter_state'[x] = "Streaming"
        /\ adapter_state[x] # "Streaming" => outbox[x] = <<>>
        /\ Rank(adapter_state[x]) < Rank("Streaming") => sent[x] = 0]_vars

\* C20 witness: Bitstamp has streamed events and terminated, Binance has
\* terminated without ever streaming
C20_Witness ==
    /\ adapter_state["Bitstamp"] = "Terminated"
    /\ sent["Bitstamp"] >= 1
    /\ adapter_state["Binance"] = "Terminated"
    /\ frames_read["Binance"] = 0
    /\ sent["Binance"] = 0

OtherSide(side) == IF side = "Buy" THEN "Sell" ELSE "Buy"

DashMapNext(side) ==
    IF side = "Buy" THEN exchange_bids_price_level' ELSE exchange_asks_price_level'

Present(side) == {c[1] : c \in {d \in DOMAIN recent : d[2] = side}}

\* C25: a ladder whose lock is poisoned keeps being served: the queries
\* still list its non-zero levels.
C25_PoisonedLadderServed ==
    \A side \in Side, x \in Exchange :
        (x \in DOMAIN DashMapOf(side) /\ DashMapOf(side)[x].poisoned) =>
            \A lv \in NonZeroLevels(DashMapOf(side)) :
                lv[1] = x => lv \in Entries(TopOf(side))

\* C26: update_price_level completes for every order without panic and
\* without overflow of the stored quantity.
C26_Infallible ==
    [][Applies =>
        LET o == last_order'
            old == Stored(DashMapOf(o.side), o.exchange, o.price)
        IN  /\ ~panicked'
            /\ ~Overflows(AddAssign(IF old = -1 THEN 0 ELSE old, o.quantity))]_vars

\* C27: the outer maps start empty; an apply adds the entry of its exchange
\* to the map of its side and changes the key set of no other map; no step
\* removes an entry; an exchange is present exactly if an order for that
\* (exchange, side) has been applied.
C27_LazyNeverShrinks ==
    [][/\ applied = 0 => Ladders = <<(<<>>), (<<>>)>>
       /\ \A side \in Side :
            /\ DOMAIN DashMapOf(side) \subseteq DOMAIN DashMapNext(side)
            /\ DOMAIN DashMapOf(side) = Present(side)
       /\ Applies =>
            LET o == last_order'
            IN  /\ DOMAIN DashMapNext(o.side) = DOMAIN DashMapOf(o.side) \cup {o.exchange}
                /\ DOMAIN DashMapNext(OtherSide(o.side)) = DOMAIN DashMapOf(OtherSide(o.side))]_vars

\* C27 witness: both exchanges have been added to the bid map by their
\* first orders while the ask map is still empty
C27_Witness ==
    /\ applied = 2
    /\ DOMAIN exchange_bids_price_level = Exchange
    /\ DOMAIN exchange_asks_price_level = {}

\* C30: an apply changes at most the entry at the order's price in the
\* ladder of the order's (exchange, side): every other (exchange, side,
\* price) holds what it held before.
C30_FrameCondition ==
    [][Applies =>
        LET o == last_order'
        IN  \A x \in Exchange, side \in Side, p \in Prices :
                <<x, side, p>> # Coord(o) =>
                    Stored(DashMapNext(side), x, p) = Stored(DashMapOf(side), x, p)]_vars

\* C30 witness: two orders have left one exchange with a crossed book
\* (its bid at or above its ask)
C30_Witness ==
    /\ applied = 2
    /\ ~panicked
    /\ \E x \in Exchange, pb \in Prices, pa \in Prices :
        /\ pb >= pa
        /\ StoredAt(x, "Buy", pb) > 0
        /\ StoredAt(x, "Sell", pa) > 0

\* C29: every step that applies an event takes the front event out of the
\* bus and applies exactly that event, which its adapter sent and which has
\* not been applied before (its send number is the next one of its
\* adapter); the book changes in no other step.
C29_ConsumedOnce ==
    [][/\ \A x \in Exchange : applied_seq[x] <= sent[x]
       /\ (Ladders' # Ladders \/ panicked' # panicked) => applied_seq' # applied_seq
       /\ applied_seq' # applied_seq =>
            /\ bus # <<>>
            /\ bus' = Tail(bus)
            /\ LET event == Head(bus)
                   x == event.order.exchange
                   after == UpdateBook(Book, build, event.order)
               IN  /\ event.seq = applied_seq[x] + 1
                   /\ event.seq <= sent[x]
                   /\ applied_seq' = [applied_seq EXCEPT ![x] = event.seq]
                   /\ Ladders' = <<after.bids, after.asks>>
                   /\ panicked' = after.panic]_vars

\* C29 witness: an adapter has sent two events and both have been applied
C29_Witness ==
    /\ bus = <<>>
    /\ \E x \in Exchange : sent[x] = 2 /\ applied_seq[x] = 2

\* ---- claims about the frames the listeners read
\* the frames C21 names: more than 100 000 bytes, not JSON, a root that is not
\* a mapping, or an event type the dialect does not know
Unusable(x, text) ==
    \/ text.bytes > MaxTextBytes
    \/ text.root.json # "object"
    \/ x = "Bitstamp" /\ text.root.event # "data"
    \/ x = "Binance" /\ text.root.e # "depthUpdate" /\ ~text.root.lastUpdateId

\* the levels of one array whose two strings both parse, as events, in the
\* order of the array
RECURSIVE ParseableLevels(_, _, _)
ParseableLevels(x, side, levels) ==
    IF levels = <<>> THEN <<>>
    ELSE LET level == Head(levels)
             parses == /\ IsPair(level)
                       /\ parse_price_cents(level.price) # None
                       /\ parse_quantity_smallest_unit(level.size, 8) # None
             rest == ParseableLevels(x, side, Tail(levels))
         IN  IF parses
             THEN <<[exchange |-> x, side |-> side,
                     price |-> parse_price_cents(level.price),
                     quantity |-> parse_quantity_smallest_unit(level.size, 8)]>> \o rest
             ELSE rest

\* the parseable levels of a frame, bids before asks
Parseable(x, frame) ==
    ParseableLevels(x, "Buy", frame.bids) \o ParseableLevels(x, "Sell", frame.asks)

\* C21: a frame that is oversize, is not valid JSON, has a non-mapping root or
\* an unknown event type puts no event in the listener's hands and reaches
\* nothing but the frame count: the listener is still Streaming, the channel
\* and the book are as they were; a listener that has dropped a frame is
\* Streaming, so the next frame is read as any other.
C21_BadFrameSkipped ==
    [][\A x \in Exchange :
        /\ rejected[x] => adapter_state[x] = "Streaming"
        /\ \A text \in {t \in Texts(x) : Unusable(x, t)} :
               ReadText(x, text) =>
                   /\ outbox'[x] = <<>>
                   /\ adapter_state'[x] = "Streaming"
                   /\ bus' = bus /\ sent' = sent
                   /\ rejected'[x]]_vars

\* a listener has dropped a frame and holds the events of the frame it read
\* after it
C21_Witness ==
    \E x \in Exchange : rejected[x] /\ frames_read[x] = 2 /\ outbox[x] # <<>>

\* C22: the events a listener takes from a frame it processes are exactly the
\* frame's parseable levels, bids before asks, each side in frame order.
C22_ExactlyParseable ==
    [][\A x \in Exchange : \A text \in Texts(x) :
        (ReadText(x, text) /\ ~EarlyReturn(x, text)) =>
            outbox'[x] = Parseable(x, LevelArrays(x, text.root))]_vars

\* the arrays C28 has Binance read: "b" and "a" when present, "bids" and
\* "asks" otherwise
PreferShortKeys(root) ==
    [bids |-> IF root.b # <<>> THEN root.b ELSE root.bids,
     asks |-> IF root.a # <<>> THEN root.a ELSE root.asks]

\* C28: a depthUpdate frame with N parseable levels under "b"/"a" gives the
\* Binance listener N events.
C28_ShortKeysRead ==
    [][\A text \in BinanceTexts :
        (/\ ReadText("Binance", text)
         /\ text.bytes <= MaxTextBytes
         /\ text.root.json = "object"
         /\ text.root.e = "depthUpdate") =>
            Len(outbox'["Binance"]) = Len(Parseable("Binance", PreferShortKeys(text.root)))]_vars

\* ---- claims about concurrent use of the book
\* the consumer holds the write guard of the ladder
WriterInside(side, x) == w_pc = "write" /\ w_order.side = side /\ w_order.exchange = x

\* a querying task holds a read guard of the ladder
ReaderInside(side, x) ==
    \E rd \in Readers : r_pc[rd] = "ladder" /\ r_side[rd] = side /\ Head(r_todo[rd]) = x

\* C23: only the consumer changes a ladder, one apply at a time (an apply
\* ends before the next begins, so the applied events are totally ordered),
\* and in every reachable state no reader is inside a ladder the writer is
\* inside; a step of the querying task leaves both maps as they are.
C23_SingleWriter ==
    /\ [](\A side \in Side, x \in Exchange : ~(WriterInside(side, x) /\ ReaderInside(side, x)))
    /\ [][/\ Ladders' # Ladders =>
                /\ w_pc \in {"idle", "write"}
                /\ w_pc' = IF w_pc = "idle" THEN "entry" ELSE "idle"
                /\ r_pc' = r_pc
                /\ \A side \in Side, x \in Exchange :
                       (x \in DOMAIN DashMapOf(side) /\ DashMapNext(side)[x] # DashMapOf(side)[x])
                           => (WriterInside(side, x) /\ ~ReaderInside(side, x))
          /\ applied' # applied =>
                (w_pc = "write" /\ w_pc' = "idle" /\ applied' = applied + 1 /\ last_order' = w_order)
          /\ w_pc' # w_pc =>
                <<w_pc, w_pc'>> \in {<<"idle", "entry">>, <<"entry", "write">>, <<"write", "idle">>}]_vars

\* the consumer is inside one ladder while the query is inside another
C23_Witness ==
    /\ w_pc = "write"
    /\ r_pc[1] = "ladder"
    /\ <<w_order.side, w_order.exchange>> # <<r_side[1], Head(r_todo[1])>>

\* C24: the levels a query has taken from one ladder are the non-zero levels,
\* in price order, of one map the ladder has held (after some prefix of the
\* applied events).
C24_LadderSnapshot ==
    \A rd \in Readers : \A i \in DOMAIN r_done[rd] :
        LET x == r_done[rd][i].exchange
        IN  \E map \in hist[<<r_side[rd], x>>] :
                r_done[rd][i].levels = PushLevels(x, map, KeysAscending(DOMAIN map))

\* a running query holds levels of a ladder that an apply has changed since
C24_Witness ==
    /\ r_pc[1] # "idle"
    /\ \E i \in DOMAIN r_done[1] :
           LET x == r_done[1][i].exchange
               map == MapOf(r_side[1])[x].map
           IN  /\ r_done[1][i].levels # <<>>
               /\ r_done[1][i].levels # PushLevels(x, map, KeysAscending(DOMAIN map))

\* ---- claims about the order of events
\* update_price_level called for each order of a sequence in turn; a panic
\* ends the consumer, so the orders after it are never applied
RECURSIVE ApplyAll(_, _, _)
ApplyAll(book, bld, orders) ==
    IF orders = <<>> \/ book.panic THEN book
    ELSE ApplyAll(UpdateBook(book, bld, Head(orders)), bld, Tail(orders))

\* an order applied between two others, or none
Between == {<<>>} \cup {<<m>> : m \in Orders}

\* C31: from any book, two events of one (exchange, side, price) leave the
\* same two maps whichever of them is applied first, with or without another
\* event between them.
C31_OrderIndependent ==
    \A o1 \in Orders, o2 \in Orders :
        Coord(o1) = Coord(o2) =>
            \A mid \in Between :
                LET a == ApplyAll(Book, build, <<o1>> \o mid \o <<o2>>)
                    b == ApplyAll(Book, build, <<o2>> \o mid \o <<o1>>)
                IN  a.bids = b.bids /\ a.asks = b.asks

\* ---- claims about progress
\* a task is inside a call of the book
InsideCall == w_pc # "idle" \/ \E rd \in Readers : r_pc[rd] # "idle"

\* no task inside a call can step
Stuck == InsideCall /\ ~ENABLED (ApplyStep \/ \E rd \in Readers : QueryStep(rd))

CentsOf(level) == level.price.hundredths

\* C33: every snapshot of the stream is consistent with itself: if its bids
\* and its asks are both non-empty, its spread is max(0, asks[0].price -
\* bids[0].price) of these lists, and its spread is absent exactly when one
\* of its lists is empty. The spread is taken as spread() returned it, before
\* it is written to the Summary.
C33_SelfConsistent ==
    snapshot.published =>
        /\ (snapshot.bids # <<>> /\ snapshot.asks # <<>>) =>
               snapshot.spread_cents =
                   SaturatingSub(CentsOf(snapshot.asks[1]), CentsOf(snapshot.bids[1]))
        /\ snapshot.spread_cents = NoSpread <=> (snapshot.bids = <<>> \/ snapshot.asks = <<>>)

\* C35: the spread field of a snapshot is null when spread() gave none and
\* the number it gave otherwise; none is never put out as 0.
C35_NullSpread ==
    snapshot.published =>
        snapshot.spread = IF snapshot.spread_cents = NoSpread THEN Null
                          ELSE CentsToFloat(snapshot.spread_cents)

\* the spread field a snapshot's own lists give
SpreadOfLists(snap) ==
    IF snap.bids = <<>> \/ snap.asks = <<>> THEN Null
    ELSE CentsToFloat(SaturatingSub(CentsOf(snap.asks[1]), CentsOf(snap.bids[1])))

\* the loop of main is over: a branch has broken it, or update_price_level
\* has panicked inside it and main unwinds
LoopOver == main_pc # "loop" \/ panicked

\* both tasks are aborted before the first query of the final snapshot
AbortedFirst == main_pc \in {"snapshot", "done"} => aborted

\* the final snapshot is the book's bids, asks and spread, and its spread is
\* the one its own bids and asks give
FinalIsBook ==
    main_pc = "done" =>
        /\ snapshot.published
        /\ snapshot.bids = ToLevels(top_bids_all_exchanges)
        /\ snapshot.asks = ToLevels(top_asks_all_exchanges)
        /\ snapshot.spread = MapSpread(spread_all_exchanges)
        /\ snapshot.spread = SpreadOfLists(snapshot)

\* the loop ends through a break branch only, and the book is left alone
\* once it is over
ExitSteps ==
    /\ (~LoopOver /\ LoopOver') =>
          /\ main_pc' = "abort"
          /\ exit_reason' \in {"closed", "window", "ctrl_c"}
          /\ exit_reason' = "closed" => (SendersDropped /\ bus = <<>>)
    /\ LoopOver => (Ladders' = Ladders /\ applied' = applied /\ panicked' = panicked)

\* C34: the loop ends in three cases only (closed and empty bus, run window,
\* interrupt); in each, both tasks are aborted before the first query of the
\* final snapshot; once the loop is over no step changes the book; the final
\* snapshot is the book's bids, asks and spread, and its spread is the one
\* its own bids and asks give.
C34_ThreeExits == []AbortedFirst /\ []FinalIsBook /\ [][ExitSteps]_vars

\* the same where no apply panics: what holds of the three break branches
FinalSnapshotAfterBreak ==
    []AbortedFirst /\ []FinalIsBook /\ [][build = "release" => ExitSteps]_vars

\* ---- claims about the queries' effect
\* what the task that builds snapshots writes
QueryVars == <<r_pc, r_side, r_todo, r_prices, r_levels, r_done, r_result, r_from, r_to,
               queries, p_results, snapshot>>

\* two queries of one side, the second returned with no order applied since
\* the first was called
Repeated(i, j) ==
    /\ i < j
    /\ PublishSides[i] = PublishSides[j]
    /\ p_results[i].from = p_results[j].to

\* C36: a step of a query (top_bids, top_asks, and the two that spread makes)
\* leaves both per-exchange maps and every ladder as they are, and two
\* queries of the same side with no apply from the call of the first to the
\* return of the second return the same vector.
C36_ReadOnly ==
    /\ [](\A i \in DOMAIN p_results, j \in DOMAIN p_results :
             Repeated(i, j) => p_results[i].levels = p_results[j].levels)
    /\ [][QueryVars' # QueryVars =>
             (Ladders' = Ladders /\ panicked' = panicked /\ applied' = applied)]_vars

\* top_bids has been repeated with no apply in between, after an apply and
\* while the next apply is inside the book, and returned levels
C36_Witness ==
    /\ Len(p_results) >= 3
    /\ Repeated(1, 3)
    /\ p_results[3].levels # <<>>
    /\ p_results[3].to > 0
    /\ w_pc = "write"

====
